---- MODULE Spec2Model ----
(***************************************************************************)
(* Trace Eurorack Module: the circuit build orchestrator                   *)
(* (circuits/build.py), the package setup (circuits/__init__.py) and the   *)
(* power-supply circuit definition (circuits/power_supply.py).             *)
(*                                                                         *)
(* The orchestrator walks the configured list of circuit names, skips the  *)
(* names whose file is absent, runs each present file as a subprocess and  *)
(* waits for it, and folds the results into one success flag.  The         *)
(* power-supply script is a straight-line sequence of SKiDL statements; it *)
(* is modelled statement by statement on the circuit graph that SKiDL      *)
(* keeps for the process.                                                  *)
(***************************************************************************)
EXTENDS Integers, Sequences, FiniteSets, TLC

\* ------------------------------------------------------------------ bounds

\* Longest configured circuit list explored.
MaxCircuits == 2

\* Largest exit status a circuit subprocess other than power_supply returns.
MaxExit == 2

\* --------------------------------------------------------- build.py: data

PowerSupply == "power_supply"

\* Names that may appear in CIRCUITS: the one configured today, one of the
\* commented-out future modules, and a name that has no file.
CircuitNames == {PowerSupply, "input_channel", "ghost_module"}

RECURSIVE SeqsUpTo(_, _)
SeqsUpTo(S, n) ==
    IF n = 0 THEN {<<>>}
    ELSE LET shorter == SeqsUpTo(S, n - 1)
         IN  shorter \cup {Append(s, x) : s \in {t \in shorter : Len(t) = n - 1}, x \in S}

Range(s) == {s[k] : k \in 1..Len(s)}

\* ---------------------------------------------- circuits/__init__.py: data

KICAD_SYMBOLS == "/Applications/KiCad/KiCad.app/Contents/SharedSupport/symbols"
KICAD_FOOTPRINTS == "/Applications/KiCad/KiCad.app/Contents/SharedSupport/footprints"

EnvVars == {"KICAD8_SYMBOL_DIR", "KICAD8_FOOTPRINT_DIR"}

\* ------------------------------------------- power_supply.py: the program

\* Operands of a connection statement: a pin of the part bound to a Python
\* variable, or a net bound to a Python variable.
P(var, pin) == [kind |-> "pin", var |-> var, pin |-> pin]
N(var) == [kind |-> "net", var |-> var, pin |-> ""]

SInit(line) == [op |-> "init_skidl", var |-> "", a |-> "", b |-> "", lhs |-> N(""), rhs |-> <<>>, line |-> line]
SNet(var, name, line) == [op |-> "net", var |-> var, a |-> name, b |-> "", lhs |-> N(""), rhs |-> <<>>, line |-> line]
SDrive(var, line) == [op |-> "drive", var |-> var, a |-> "POWER", b |-> "", lhs |-> N(""), rhs |-> <<>>, line |-> line]
SPart(var, sym, value, line) == [op |-> "part", var |-> var, a |-> sym, b |-> value, lhs |-> N(""), rhs |-> <<>>, line |-> line]
SConn(lhs, rhs, line) == [op |-> "connect", var |-> "", a |-> "", b |-> "", lhs |-> lhs, rhs |-> rhs, line |-> line]
SOp(op, line) == [op |-> op, var |-> "", a |-> "", b |-> "", lhs |-> N(""), rhs |-> <<>>, line |-> line]

\* A variant of the program in which the regulator's enable pin is left out
\* of the +12V statement and the output capacitor's pin 1 is also tied to GND.
ProgramMiswired ==
    << SInit(19),
       SNet("plus_12v", "+12V", 26), SNet("minus_12v", "-12V", 27), SNet("gnd", "GND", 28),
       SNet("plus_3v3", "+3.3V", 29), SNet("sw_node", "SW", 30),
       SDrive("plus_12v", 33), SDrive("gnd", 34), SDrive("minus_12v", 35), SDrive("plus_3v3", 36),
       SPart("j1", "Conn_02x05_Odd_Even", "Eurorack_Power", 44),
       SPart("d1", "D_Schottky", "SS14", 49),
       SPart("u1", "AP63203WU", "AP63203WU-7", 54),
       SPart("c1", "C", "10uF", 59), SPart("c2", "C", "22uF", 64), SPart("c3", "C", "100nF", 69),
       SPart("l1", "L", "10uH", 74),
       SConn(P("j1", "1"), <<P("d1", "K")>>, 91),
       SConn(P("d1", "A"), <<N("minus_12v")>>, 92),
       SConn(N("plus_12v"), <<P("j1", "9"), P("j1", "10"), P("c1", "1"), P("u1", "IN")>>, 95),
       SConn(N("gnd"), <<P("j1", "2"), P("j1", "3"), P("j1", "4"), P("j1", "5"),
                         P("j1", "6"), P("j1", "7"), P("j1", "8")>>, 98),
       SConn(N("gnd"), <<P("c1", "2"), P("u1", "GND"), P("c2", "2"), P("c2", "1")>>, 99),
       SConn(P("u1", "SW"), <<N("sw_node"), P("c3", "1"), P("l1", "1")>>, 102),
       SConn(P("u1", "BST"), <<P("c3", "2")>>, 103),
       SConn(P("l1", "2"), <<N("plus_3v3")>>, 106),
       SConn(N("plus_3v3"), <<P("c2", "1"), P("u1", "FB")>>, 107),
       SOp("print", 113), SOp("erc", 118), SOp("summary", 120), SOp("netlist", 141),
       SOp("print", 142) >>

\* A variant of the program in which ERC is called before the output rail is
\* wired, so the netlist is generated from a graph ERC never saw.
ProgramErcEarly ==
    << SInit(19),
       SNet("plus_12v", "+12V", 26), SNet("minus_12v", "-12V", 27), SNet("gnd", "GND", 28),
       SNet("plus_3v3", "+3.3V", 29), SNet("sw_node", "SW", 30),
       SDrive("plus_12v", 33), SDrive("gnd", 34), SDrive("minus_12v", 35), SDrive("plus_3v3", 36),
       SPart("j1", "Conn_02x05_Odd_Even", "Eurorack_Power", 44),
       SPart("d1", "D_Schottky", "SS14", 49),
       SPart("u1", "AP63203WU", "AP63203WU-7", 54),
       SPart("c1", "C", "10uF", 59), SPart("c2", "C", "22uF", 64), SPart("c3", "C", "100nF", 69),
       SPart("l1", "L", "10uH", 74),
       SConn(P("j1", "1"), <<P("d1", "K")>>, 91),
       SConn(P("d1", "A"), <<N("minus_12v")>>, 92),
       SConn(N("plus_12v"), <<P("j1", "9"), P("j1", "10"), P("c1", "1"), P("u1", "IN"), P("u1", "EN")>>, 95),
       SConn(N("gnd"), <<P("j1", "2"), P("j1", "3"), P("j1", "4"), P("j1", "5"),
                         P("j1", "6"), P("j1", "7"), P("j1", "8")>>, 98),
       SConn(N("gnd"), <<P("c1", "2"), P("u1", "GND"), P("c2", "2")>>, 99),
       SConn(P("u1", "SW"), <<N("sw_node"), P("c3", "1"), P("l1", "1")>>, 102),
       SConn(P("u1", "BST"), <<P("c3", "2")>>, 103),
       SOp("print", 113), SOp("erc", 118),
       SConn(P("l1", "2"), <<N("plus_3v3")>>, 106),
       SConn(N("plus_3v3"), <<P("c2", "1"), P("u1", "FB")>>, 107),
       SOp("summary", 120), SOp("netlist", 141),
       SOp("print", 142) >>

\* The statements of power_supply.py in source order (line = source line).
Program ==
    << SInit(19),
       SNet("plus_12v", "+12V", 26), SNet("minus_12v", "-12V", 27), SNet("gnd", "GND", 28),
       SNet("plus_3v3", "+3.3V", 29), SNet("sw_node", "SW", 30),
       SDrive("plus_12v", 33), SDrive("gnd", 34), SDrive("minus_12v", 35), SDrive("plus_3v3", 36),
       SPart("j1", "Conn_02x05_Odd_Even", "Eurorack_Power", 44),
       SPart("d1", "D_Schottky", "SS14", 49),
       SPart("u1", "AP63203WU", "AP63203WU-7", 54),
       SPart("c1", "C", "10uF", 59), SPart("c2", "C", "22uF", 64), SPart("c3", "C", "100nF", 69),
       SPart("l1", "L", "10uH", 74),
       SConn(P("j1", "1"), <<P("d1", "K")>>, 91),
       SConn(P("d1", "A"), <<N("minus_12v")>>, 92),
       SConn(N("plus_12v"), <<P("j1", "9"), P("j1", "10"), P("c1", "1"), P("u1", "IN"), P("u1", "EN")>>, 95),
       SConn(N("gnd"), <<P("j1", "2"), P("j1", "3"), P("j1", "4"), P("j1", "5"),
                         P("j1", "6"), P("j1", "7"), P("j1", "8")>>, 98),
       SConn(N("gnd"), <<P("c1", "2"), P("u1", "GND"), P("c2", "2")>>, 99),
       SConn(P("u1", "SW"), <<N("sw_node"), P("c3", "1"), P("l1", "1")>>, 102),
       SConn(P("u1", "BST"), <<P("c3", "2")>>, 103),
       SConn(P("l1", "2"), <<N("plus_3v3")>>, 106),
       SConn(N("plus_3v3"), <<P("c2", "1"), P("u1", "FB")>>, 107),
       SOp("print", 113), SOp("erc", 118), SOp("summary", 120), SOp("netlist", 141),
       SOp("print", 142) >>

ProgLen == Len(Program)

NetVars == {"plus_12v", "minus_12v", "gnd", "plus_3v3", "sw_node"}

\* Pins of the library symbols the script instantiates.
SymbolPins(sym) ==
    CASE sym = "Conn_02x05_Odd_Even" -> {"1", "2", "3", "4", "5", "6", "7", "8", "9", "10"}
      [] sym = "D_Schottky" -> {"K", "A"}
      [] sym = "AP63203WU" -> {"IN", "EN", "GND", "SW", "BST", "FB"}
      [] sym = "C" -> {"1", "2"}
      [] sym = "L" -> {"1", "2"}
      [] OTHER -> {}

\* Reference prefix of a library symbol, and the references SKiDL hands out
\* for it in order of instantiation.
RefPrefix(sym) ==
    CASE sym = "Conn_02x05_Odd_Even" -> "J"
      [] sym = "D_Schottky" -> "D"
      [] sym = "AP63203WU" -> "U"
      [] sym = "C" -> "C"
      [] sym = "L" -> "L"
      [] OTHER -> "X"

RefName(prefix, k) ==
    CASE prefix = "J" -> <<"J1", "J2", "J3">>[k]
      [] prefix = "D" -> <<"D1", "D2", "D3">>[k]
      [] prefix = "U" -> <<"U1", "U2", "U3">>[k]
      [] prefix = "C" -> <<"C1", "C2", "C3">>[k]
      [] prefix = "L" -> <<"L1", "L2", "L3">>[k]
      [] OTHER -> "X?"

\* Names SKiDL gives the nets it creates itself for pin-to-pin connections.
AutoNetName(k) == <<"N$1", "N$2", "N$3", "N$4", "N$5", "N$6", "N$7", "N$8">>[k]

VARIABLES
    circuits,     \* CIRCUITS, the configured list of circuit names
    fileExists,   \* file system: does <name>.py exist in the circuits directory
    exitStatus,   \* environment: the exit status <name>.py ends with on this machine
                  \* (0 for a name that has no file: nothing runs)
    mpc,          \* orchestrator position: "loop", "wait", "done"
    idx,          \* orchestrator: index into CIRCUITS of the current step
    success,      \* orchestrator: the aggregate success flag of main
    out,          \* orchestrator: lines printed so far
    calls,        \* orchestrator: names build_circuit was called with, in order
    exitCode,     \* orchestrator: exit status of build.py, -1 while running
    running,      \* indices of CIRCUITS whose subprocess is alive
    returncode,   \* exit status of the last subprocess that ended, -1 if none
    spc,          \* power_supply.py: index of the next statement, 0 if not started
    environ,      \* power_supply.py: os.environ entries for the KiCad libraries
    outDir,       \* power_supply.py: OUTPUT_DIR exists
    tool,         \* power_supply.py: SKiDL's default tool
    nets,         \* circuit graph: net variable -> net name ("" if undeclared)
    drive,        \* circuit graph: net name -> drive
    parts,        \* circuit graph: parts in declaration order
    pinNets,      \* circuit graph: pin -> sequence of nets it is attached to
    autoNets,     \* circuit graph: number of nets SKiDL created itself
    erc,          \* ERC: [runs, violations, graph]
    summary,      \* number of times the summary was printed
    netlist,      \* netlist file: [writes, graph]
    phases        \* power_supply.py: ops executed so far, in order

buildVars == <<mpc, idx, success, out, calls, exitCode>>
procVars == <<running, returncode>>
inputVars == <<circuits, fileExists, exitStatus>>
graphVars == <<nets, drive, parts, pinNets, autoNets>>
scriptVars == <<spc, environ, outDir, tool, erc, summary, netlist, phases>>
vars == <<inputVars, buildVars, procVars, graphVars, scriptVars>>


\* ------------------------------------------------ SKiDL graph operations

\* The part object a Python variable is bound to (the latest assignment).
PartOf(var) ==
    LET ks == {k \in 1..Len(parts) : parts[k].var = var}
    IN  parts[CHOOSE k \in ks : \A j \in ks : j <= k]

PinId(operand) == <<PartOf(operand.var).ref, operand.pin>>

\* Net.connect(pin): the net is appended to pin.nets unless already there.
Attach(g, pin, net) ==
    IF \E k \in 1..Len(g.pinNets[pin]) : g.pinNets[pin][k] = net
    THEN g
    ELSE [g EXCEPT !.pinNets[pin] = Append(@, net)]

\* Pin.connect(pin): join the other pin to this pin's first net, else this
\* pin to the other's first net, else create a net and attach both.
JoinPins(g, a, b) ==
    IF g.pinNets[a] # <<>> THEN Attach(g, b, g.pinNets[a][1])
    ELSE IF g.pinNets[b] # <<>> THEN Attach(g, a, g.pinNets[b][1])
    ELSE LET n == AutoNetName(g.autoNets + 1)
         IN  Attach(Attach([g EXCEPT !.autoNets = @ + 1], a, n), b, n)

\* One operand on the right of `lhs += ...`.  No statement of the script
\* connects a net to a net.
Join(g, lhs, r) ==
    CASE lhs.kind = "pin" /\ r.kind = "pin" -> JoinPins(g, PinId(lhs), PinId(r))
      [] lhs.kind = "pin" /\ r.kind = "net" -> Attach(g, PinId(lhs), nets[r.var])
      [] lhs.kind = "net" /\ r.kind = "pin" -> Attach(g, PinId(r), nets[lhs.var])
      [] OTHER -> g

RECURSIVE JoinAll(_, _, _, _)
JoinAll(g, lhs, rhs, k) ==
    IF k > Len(rhs) THEN g ELSE JoinAll(Join(g, lhs, rhs[k]), lhs, rhs, k + 1)

\* default_circuit as ERC, the summary and generate_netlist see it.
Graph ==
    [nets |-> {nets[v] : v \in {w \in NetVars : nets[w] # ""}} \cup {AutoNetName(k) : k \in 1..autoNets},
     parts |-> parts,
     pinNets |-> pinNets]

EmptyGraph == [nets |-> {}, parts |-> <<>>, pinNets |-> <<>>]

DeclaredPins == DOMAIN pinNets

UnconnectedPins == {p \in DeclaredPins : pinNets[p] = <<>>}

\* ------------------------------------------------------------------- Init

Init ==
    /\ circuits \in SeqsUpTo(CircuitNames, MaxCircuits)
    /\ fileExists \in [CircuitNames -> BOOLEAN]
    /\ exitStatus \in [CircuitNames -> 0..MaxExit]
    /\ exitStatus[PowerSupply] \in {0, 1}
    /\ \A n \in CircuitNames : ~fileExists[n] => exitStatus[n] = 0
    /\ mpc = "start"
    /\ idx = 1
    /\ success = TRUE
    /\ out = <<>>
    /\ calls = <<>>
    /\ exitCode = -1
    /\ running = {}
    /\ returncode = -1
    /\ spc = 0
    /\ environ = [v \in EnvVars |-> ""]
    /\ outDir = FALSE
    /\ tool = ""
    /\ nets = [v \in NetVars |-> ""]
    /\ drive = [n \in {} |-> ""]
    /\ parts = <<>>
    /\ pinNets = [p \in {} |-> <<>>]
    /\ autoNets = 0
    /\ erc = [runs |-> 0, violations |-> FALSE, graph |-> EmptyGraph]
    /\ summary = 0
    /\ netlist = [writes |-> 0, graph |-> EmptyGraph]
    /\ phases = <<>>

\* -------------------------------------------------- build.py: operators

\* build_circuit's result for a name whose file is absent.
SkipResultFails == FALSE
SkipResult == TRUE

\* build_circuit's result from the subprocess's returncode.
StepResultIgnoresStatus(rc) == TRUE
StepResult(rc) == rc = 0

\* main's update of the flag after one build_circuit call.
AggregateOverwrites(flag, ok) == ok
Aggregate(flag, ok) == IF ~ok THEN FALSE ELSE flag

\* main's for loop: the index of the step after step i.
NextIdxStopsOnFailure(i, ok) == IF ok THEN i + 1 ELSE Len(circuits) + 1
NextIdx(i, ok) == i + 1

\* main's exit status from the flag.
FinalStatusAlwaysZero(flag) == 0
FinalStatus(flag) == IF flag THEN 0 ELSE 1

\* main's final banner from the flag.
FinalBanner(flag) == IF flag THEN "BUILD COMPLETE" ELSE "BUILD FAILED"

\* subprocess.run returns once the child it started has terminated.
RunReturnsNoWait(i) == TRUE
RunReturns(i) == i \notin running

\* ---------------------------------------------------- build.py: actions

MainStart ==
    /\ mpc = "start"
    /\ mpc' = "loop"
    /\ out' = Append(out, <<"Trace Eurorack Module - Circuit Build", "">>)
    /\ UNCHANGED <<idx, success, calls, exitCode>>
    /\ UNCHANGED <<inputVars, procVars, graphVars, scriptVars>>

\* build_circuit(name) when <name>.py does not exist, with main's update.
BuildCircuitSkip ==
    /\ mpc = "loop"
    /\ idx <= Len(circuits)
    /\ ~fileExists[circuits[idx]]
    /\ calls' = Append(calls, circuits[idx])
    /\ out' = Append(out, <<"SKIP", circuits[idx]>>)
    /\ success' = Aggregate(success, SkipResult)
    /\ idx' = NextIdx(idx, SkipResult)
    /\ UNCHANGED <<mpc, exitCode>>
    /\ UNCHANGED <<inputVars, procVars, graphVars, scriptVars>>

\* build_circuit(name) up to the start of the subprocess.  The child starts
\* with its own empty circuit graph.
BuildCircuitLaunch ==
    /\ mpc = "loop"
    /\ idx <= Len(circuits)
    /\ fileExists[circuits[idx]]
    /\ calls' = Append(calls, circuits[idx])
    /\ out' = Append(out, <<"Building", circuits[idx]>>)
    /\ running' = running \cup {idx}
    /\ returncode' = -1
    /\ mpc' = "wait"
    /\ IF circuits[idx] = PowerSupply
       THEN /\ spc' = 1
            /\ environ' = [v \in EnvVars |-> ""]
            /\ outDir' = FALSE
            /\ tool' = ""
            /\ nets' = [v \in NetVars |-> ""]
            /\ drive' = [n \in {} |-> ""]
            /\ parts' = <<>>
            /\ pinNets' = [p \in {} |-> <<>>]
            /\ autoNets' = 0
            /\ erc' = [runs |-> 0, violations |-> FALSE, graph |-> EmptyGraph]
            /\ summary' = 0
            /\ netlist' = [writes |-> 0, graph |-> EmptyGraph]
            /\ phases' = <<>>
       ELSE UNCHANGED <<graphVars, scriptVars>>
    /\ UNCHANGED <<idx, success, exitCode>>
    /\ UNCHANGED inputVars

\* subprocess.run returns; build_circuit reads returncode; main updates the
\* flag and moves to the next name.
BuildCircuitReturn ==
    /\ mpc = "wait"
    /\ RunReturns(idx)
    /\ LET ok == StepResult(returncode)
       IN  /\ out' = IF ok THEN out ELSE Append(out, <<"FAILED", circuits[idx]>>)
           /\ success' = Aggregate(success, ok)
           /\ idx' = NextIdx(idx, ok)
    /\ mpc' = "loop"
    /\ UNCHANGED <<calls, exitCode>>
    /\ UNCHANGED <<inputVars, procVars, graphVars, scriptVars>>

\* After the loop: the banner and the exit status.
MainFinish ==
    /\ mpc = "loop"
    /\ idx > Len(circuits)
    /\ out' = Append(out, <<FinalBanner(success), "">>)
    /\ exitCode' = FinalStatus(success)
    /\ mpc' = "done"
    /\ UNCHANGED <<idx, success, calls>>
    /\ UNCHANGED <<inputVars, procVars, graphVars, scriptVars>>

\* A circuit script other than power_supply.py runs to its end.
OtherScriptExit ==
    /\ \E i \in running :
        /\ circuits[i] # PowerSupply
        /\ running' = running \ {i}
        /\ returncode' = exitStatus[circuits[i]]
    /\ UNCHANGED <<inputVars, buildVars, graphVars, scriptVars>>


\* ------------------------------------------- power_supply.py: operators

\* Whether the script goes on after ERC() returned: nothing reads what ERC
\* found, so it always does.
ContinuesOnlyIfClean(violations) == ~violations
ContinuesAfterErc(violations) == TRUE

\* The power_supply.py process is alive.
ScriptAlive == \E i \in running : circuits[i] = PowerSupply

\* The statement about to run.  exitStatus says how the process ends on this
\* machine: when it is non-zero some statement raises, so the last statement
\* cannot complete.
AtStmt(op) ==
    /\ ScriptAlive
    /\ spc \in 1..ProgLen
    /\ Program[spc].op = op
    /\ (spc < ProgLen \/ exitStatus[PowerSupply] = 0)

Stmt == Program[spc]

\* The process ends with the given status.
ScriptEnds(status) ==
    /\ running' = {i \in running : circuits[i] # PowerSupply}
    /\ returncode' = status

\* ---------------------------------- circuits/__init__.py and the script

\* init_skidl(): both library variables, the output directory, the tool.
InitSkidl ==
    /\ AtStmt("init_skidl")
    /\ environ' = [environ EXCEPT !["KICAD8_SYMBOL_DIR"] = KICAD_SYMBOLS,
                                  !["KICAD8_FOOTPRINT_DIR"] = KICAD_FOOTPRINTS]
    /\ outDir' = TRUE
    /\ tool' = "KICAD8"
    /\ spc' = spc + 1
    /\ phases' = Append(phases, Stmt.op)
    /\ UNCHANGED <<erc, summary, netlist>>
    /\ UNCHANGED <<inputVars, buildVars, procVars, graphVars>>

\* var = Net(name)
DeclareNet ==
    /\ AtStmt("net")
    /\ nets' = [nets EXCEPT ![Stmt.var] = Stmt.a]
    /\ drive' = (Stmt.a :> "NONE") @@ drive
    /\ spc' = spc + 1
    /\ phases' = Append(phases, Stmt.op)
    /\ UNCHANGED <<parts, pinNets, autoNets>>
    /\ UNCHANGED <<environ, outDir, tool, erc, summary, netlist>>
    /\ UNCHANGED <<inputVars, buildVars, procVars>>

\* var.drive = POWER
SetDrive ==
    /\ AtStmt("drive")
    /\ drive' = [drive EXCEPT ![nets[Stmt.var]] = Stmt.a]
    /\ spc' = spc + 1
    /\ phases' = Append(phases, Stmt.op)
    /\ UNCHANGED <<nets, parts, pinNets, autoNets>>
    /\ UNCHANGED <<environ, outDir, tool, erc, summary, netlist>>
    /\ UNCHANGED <<inputVars, buildVars, procVars>>

\* var = Part(lib, symbol, value=..., footprint=...): the part gets the next
\* reference of its prefix and its pins start unconnected.
DeclarePart ==
    /\ AtStmt("part")
    /\ LET pf == RefPrefix(Stmt.a)
           n == Cardinality({k \in 1..Len(parts) : RefPrefix(parts[k].sym) = pf})
           ref == RefName(pf, n + 1)
       IN  /\ parts' = Append(parts, [var |-> Stmt.var, ref |-> ref, sym |-> Stmt.a, value |-> Stmt.b])
           /\ pinNets' = [p \in {<<ref, q>> : q \in SymbolPins(Stmt.a)} |-> <<>>] @@ pinNets
    /\ spc' = spc + 1
    /\ phases' = Append(phases, Stmt.op)
    /\ UNCHANGED <<nets, drive, autoNets>>
    /\ UNCHANGED <<environ, outDir, tool, erc, summary, netlist>>
    /\ UNCHANGED <<inputVars, buildVars, procVars>>

\* lhs += r1, r2, ...
Connect ==
    /\ AtStmt("connect")
    /\ LET g == JoinAll([pinNets |-> pinNets, autoNets |-> autoNets], Stmt.lhs, Stmt.rhs, 1)
       IN  /\ pinNets' = g.pinNets
           /\ autoNets' = g.autoNets
    /\ spc' = spc + 1
    /\ phases' = Append(phases, Stmt.op)
    /\ UNCHANGED <<nets, drive, parts>>
    /\ UNCHANGED <<environ, outDir, tool, erc, summary, netlist>>
    /\ UNCHANGED <<inputVars, buildVars, procVars>>

\* print(...) statements outside the summary.
PrintLine ==
    /\ AtStmt("print")
    /\ spc' = spc + 1
    /\ phases' = Append(phases, Stmt.op)
    /\ UNCHANGED <<environ, outDir, tool, erc, summary, netlist>>
    /\ UNCHANGED <<inputVars, buildVars, procVars, graphVars>>

\* ERC(): the library inspects the graph and reports.  An unconnected pin is
\* reported; what else the library's rules find is the library's choice.
RunERC ==
    /\ AtStmt("erc")
    /\ \E found \in BOOLEAN :
        LET v == (UnconnectedPins # {}) \/ found
        IN  /\ erc' = [runs |-> erc.runs + 1, violations |-> v, graph |-> Graph]
            /\ IF ContinuesAfterErc(v)
               THEN /\ spc' = spc + 1
                    /\ UNCHANGED procVars
               ELSE /\ spc' = spc
                    /\ ScriptEnds(1)
    /\ phases' = Append(phases, Stmt.op)
    /\ UNCHANGED <<environ, outDir, tool, summary, netlist>>
    /\ UNCHANGED <<inputVars, buildVars, graphVars>>

\* The "Circuit Summary" block.
PrintSummary ==
    /\ AtStmt("summary")
    /\ summary' = summary + 1
    /\ spc' = spc + 1
    /\ phases' = Append(phases, Stmt.op)
    /\ UNCHANGED <<environ, outDir, tool, erc, netlist>>
    /\ UNCHANGED <<inputVars, buildVars, procVars, graphVars>>

\* generate_netlist(file_=OUTPUT_DIR / 'power_supply.net')
GenerateNetlist ==
    /\ AtStmt("netlist")
    /\ netlist' = [writes |-> netlist.writes + 1, graph |-> Graph]
    /\ spc' = spc + 1
    /\ phases' = Append(phases, Stmt.op)
    /\ UNCHANGED <<environ, outDir, tool, erc, summary>>
    /\ UNCHANGED <<inputVars, buildVars, procVars, graphVars>>

\* The end of the file is reached: the interpreter exits with status 0.
ScriptExit ==
    /\ ScriptAlive
    /\ spc = ProgLen + 1
    /\ ScriptEnds(0)
    /\ UNCHANGED <<inputVars, buildVars, graphVars, scriptVars>>

\* A statement raises and nothing catches it: the interpreter exits with
\* status 1.
ScriptRaise ==
    /\ ScriptAlive
    /\ spc \in 1..ProgLen
    /\ exitStatus[PowerSupply] # 0
    /\ ScriptEnds(1)
    /\ UNCHANGED <<inputVars, buildVars, graphVars, scriptVars>>

\* ------------------------------------------------------------------- Next

Next ==
    \/ MainStart
    \/ BuildCircuitSkip
    \/ BuildCircuitLaunch
    \/ BuildCircuitReturn
    \/ MainFinish
    \/ OtherScriptExit
    \/ InitSkidl
    \/ DeclareNet
    \/ SetDrive
    \/ DeclarePart
    \/ Connect
    \/ PrintLine
    \/ RunERC
    \/ PrintSummary
    \/ GenerateNetlist
    \/ ScriptExit
    \/ ScriptRaise

Spec == Init /\ [][Next]_vars


\* ------------------------------------------------------- derived notions

\* The step for position k of CIRCUITS launches a subprocess that ends with
\* a non-zero status.
FailsAt(k) == fileExists[circuits[k]] /\ exitStatus[circuits[k]] # 0

SomeFails == \E k \in 1..Len(circuits) : FailsAt(k)

Lines(tag) == {k \in 1..Len(out) : out[k][1] = tag}

NamesOn(tag) == {out[k][2] : k \in Lines(tag)}

Banners == Lines("BUILD COMPLETE") \cup Lines("BUILD FAILED")

Done == mpc = "done"

\* The power_supply.py subprocess of the current step has terminated and
\* build_circuit has not yet looked at its status.
ScriptEnded ==
    /\ mpc = "wait"
    /\ circuits[idx] = PowerSupply
    /\ idx \notin running

\* Pins the power-supply schematic declares.
SchematicPins ==
    ({"J1"} \X {"1", "2", "3", "4", "5", "6", "7", "8", "9", "10"})
    \cup ({"D1"} \X {"K", "A"})
    \cup ({"U1"} \X {"IN", "EN", "GND", "SW", "BST", "FB"})
    \cup ({"C1", "C2", "C3", "L1"} \X {"1", "2"})

\* Position of a statement kind in the script's phase order; print
\* statements belong to no phase.
PhaseRank(op) ==
    CASE op = "init_skidl" -> 0
      [] op \in {"net", "drive", "part", "connect"} -> 1
      [] op = "erc" -> 2
      [] op = "summary" -> 3
      [] op = "netlist" -> 4
      [] OTHER -> -1

InPhase(op) == PhaseRank(op) >= 0

Times(op) == Cardinality({k \in 1..Len(phases) : phases[k] = op})

\* ------------------------------------------------------------------ claims

\* C1: when the orchestrator has finished, build_circuit has been called
\* once for every configured name, in list order, including the names after
\* a failing one, and if some launched subprocess ended with a non-zero
\* status the orchestrator's exit status is 1.
C1_NoShortCircuit ==
    Done => /\ calls = circuits
            /\ SomeFails => exitCode = 1

\* C1 witness: a finished run whose first circuit failed and whose second
\* circuit was still attempted.
C1_Witness ==
    /\ Done
    /\ Len(circuits) = 2
    /\ FailsAt(1)
    /\ calls = circuits
    /\ exitCode = 1

\* C2: when the orchestrator has finished, its exit status is 0 exactly when
\* no step failed (every circuit was skipped or ended with status 0) and is
\* 1 otherwise; with no failure the last line printed is BUILD COMPLETE.
C2_ExitStatus ==
    Done => /\ exitCode = (IF SomeFails THEN 1 ELSE 0)
            /\ ~SomeFails => out[Len(out)][1] = "BUILD COMPLETE"

\* C2 witness: a finished run of a list holding power_supply alone, whose
\* subprocess ended with status 0, printing BUILD COMPLETE and exiting 0.
C2_Witness ==
    /\ Done
    /\ circuits = <<PowerSupply>>
    /\ fileExists[PowerSupply]
    /\ exitStatus[PowerSupply] = 0
    /\ out[Len(out)][1] = "BUILD COMPLETE"
    /\ exitCode = 0

\* C3: the step for a name whose file is absent prints a SKIP line for that
\* name, launches no subprocess and leaves the success flag as it was; no
\* subprocess is ever launched for an absent file.
C3_SkipIsNoOp ==
    [][(mpc = "loop" /\ idx <= Len(circuits) /\ ~fileExists[circuits[idx]])
         => /\ out' = Append(out, <<"SKIP", circuits[idx]>>)
            /\ success' = success
            /\ running' = {}
            /\ \A n \in NamesOn("Building")' : fileExists[n]
            /\ idx' = idx + 1]_vars

\* C3 witness: the list power_supply, ghost_module with ghost_module.py
\* absent and power_supply succeeding finishes with a SKIP line for
\* ghost_module and exit status 0.
C3_Witness ==
    /\ Done
    /\ circuits = <<PowerSupply, "ghost_module">>
    /\ fileExists[PowerSupply]
    /\ ~fileExists["ghost_module"]
    /\ "ghost_module" \in NamesOn("SKIP")
    /\ "ghost_module" \notin NamesOn("Building")
    /\ exitCode = 0

\* C4: when no statement of power_supply.py raises, the process ends with
\* status 0 having run ERC once, printed the summary once and written the
\* netlist once, whether or not ERC reported violations; the orchestrator
\* never prints FAILED for it.
C4_ErcOutcomeIgnored ==
    /\ (ScriptEnded /\ exitStatus[PowerSupply] = 0)
          => /\ erc.runs = 1
             /\ summary = 1
             /\ netlist.writes = 1
             /\ returncode = 0
    /\ exitStatus[PowerSupply] = 0 => PowerSupply \notin NamesOn("FAILED")

\* C4 witness: ERC reported violations, the netlist was written all the
\* same, and the orchestrator finished with exit status 0.
C4_Witness ==
    /\ Done
    /\ PowerSupply \in Range(calls)
    /\ erc.violations
    /\ summary = 1
    /\ netlist.writes = 1
    /\ exitCode = 0

\* C5: at most one circuit subprocess is alive at any time, it is the one of
\* the current step, the orchestrator is outside build_circuit only when no
\* subprocess is alive, and the names attempted so far are the first names
\* of the list in list order.
C5_Sequential ==
    /\ Cardinality(running) <= 1
    /\ running \subseteq {idx}
    /\ mpc # "wait" => running = {}
    /\ Len(calls) <= Len(circuits)
    /\ calls = SubSeq(circuits, 1, Len(calls))
    /\ mpc = "wait" => Len(calls) = idx
    /\ mpc = "loop" => Len(calls) = idx - 1

\* C5 witness: the subprocess of the second circuit is alive, the first
\* step being over.
C5_Witness ==
    /\ running = {2}
    /\ Len(calls) = 2
    /\ fileExists[circuits[1]]

\* C6: in the graph ERC inspects, the declared pins are exactly the pins of
\* J1, D1, U1, C1, C2, C3 and L1, and each of them is attached to exactly
\* one net.
C6_EveryPinOnOneNet ==
    erc.runs > 0 =>
        /\ DOMAIN erc.graph.pinNets = SchematicPins
        /\ \A p \in DOMAIN erc.graph.pinNets : Len(erc.graph.pinNets[p]) = 1

\* C6 witness: ERC has run on a graph holding the regulator's enable pin on
\* the +12V net and the bootstrap pin on a net SKiDL created.
C6_Witness ==
    /\ erc.runs = 1
    /\ erc.graph.pinNets[<<"U1", "EN">>] = <<"+12V">>
    /\ erc.graph.pinNets[<<"U1", "BST">>] = <<"N$2">>
    /\ erc.graph.pinNets[<<"C3", "2">>] = <<"N$2">>

\* C8: the orchestrator's results depend only on the set of configured names
\* and on the fixed mapping from name to (file exists, exit status), so they
\* are the same for every ordering of the list: the exit status, the set of
\* names attempted, the set reported FAILED and the set reported SKIP.
C8_OrderIrrelevant ==
    Done =>
        LET S == Range(circuits)
        IN  /\ exitCode = (IF \E n \in S : fileExists[n] /\ exitStatus[n] # 0 THEN 1 ELSE 0)
            /\ Range(calls) = S
            /\ NamesOn("FAILED") = {n \in S : fileExists[n] /\ exitStatus[n] # 0}
            /\ NamesOn("SKIP") = {n \in S : ~fileExists[n]}
            /\ NamesOn("Building") = {n \in S : fileExists[n]}

\* C8 witness: a finished run of two distinct circuits, the first failing and
\* the second succeeding, with exit status 1.
C8_Witness ==
    /\ Done
    /\ Len(circuits) = 2
    /\ circuits[1] # circuits[2]
    /\ FailsAt(1)
    /\ fileExists[circuits[2]]
    /\ exitStatus[circuits[2]] = 0
    /\ exitCode = 1

\* C9: the phases of power_supply.py run in order: init_skidl first, having
\* set both library variables and created the output directory before any
\* net or part is declared; every declaration and connection before ERC;
\* ERC before the summary; the netlist last; each of init_skidl, ERC, summary
\* and netlist at most once, and exactly once in a completed run; and the
\* netlist is generated from the graph ERC inspected.
C9_PhaseOrder ==
    /\ LET ph == SelectSeq(phases, InPhase)
       IN  \A k \in 1..(Len(ph) - 1) : PhaseRank(ph[k]) <= PhaseRank(ph[k + 1])
    /\ \A op \in {"init_skidl", "erc", "summary", "netlist"} :
          /\ Times(op) <= 1
          /\ spc = ProgLen + 1 => Times(op) = 1
    /\ (parts # <<>> \/ \E v \in NetVars : nets[v] # "")
          => /\ phases[1] = "init_skidl"
             /\ environ["KICAD8_SYMBOL_DIR"] = KICAD_SYMBOLS
             /\ environ["KICAD8_FOOTPRINT_DIR"] = KICAD_FOOTPRINTS
             /\ outDir
    /\ erc.runs = Times("erc")
    /\ summary = Times("summary")
    /\ netlist.writes = Times("netlist")
    /\ netlist.writes > 0 => netlist.graph = erc.graph

\* C9 witness: a completed run of the script: the netlist is written and the
\* last statement has run.
C9_Witness ==
    /\ spc = ProgLen + 1
    /\ netlist.writes = 1
    /\ Cardinality(netlist.graph.nets) = 7
    /\ Len(netlist.graph.parts) = 7

\* C10: the success flag starts true and no step sets it back to true once
\* it is false; exactly one banner is printed, as the last line, when the
\* orchestrator finishes: BUILD COMPLETE with exit status 0 when the flag is
\* true, BUILD FAILED with exit status 1 when it is false; and every step
\* whose subprocess ended with a non-zero status has its own FAILED line.
C10_FlagAndBanner ==
    [][/\ mpc = "start" => success
       /\ ~success => ~success'
       /\ Cardinality(Banners') = (IF Done' THEN 1 ELSE 0)
       /\ Done' => /\ Banners' = {Len(out')}
                   /\ out'[Len(out')][1] = (IF success' THEN "BUILD COMPLETE" ELSE "BUILD FAILED")
                   /\ exitCode' = (IF success' THEN 0 ELSE 1)
                   /\ \A n \in CircuitNames :
                         Cardinality({k \in Lines("FAILED")' : out'[k][2] = n})
                           = Cardinality({k \in 1..Len(circuits) : circuits[k] = n /\ FailsAt(k)})
       /\ ~Done' => exitCode' = -1]_vars

\* C10 witness: a finished run in which a failed step was followed by a
\* successful one: the flag is still false and BUILD FAILED is the last line.
C10_Witness ==
    /\ Done
    /\ Len(circuits) = 2
    /\ FailsAt(1)
    /\ ~FailsAt(2)
    /\ ~success
    /\ out[Len(out)][1] = "BUILD FAILED"
    /\ Cardinality(Lines("FAILED")) = 1

====
